---- MODULE Spec2Model ----
(***************************************************************************)
(* Ledger engine of the banking backend: Deposit, Withdraw,               *)
(* InternalTransfer and ExternalTransfer requests                         *)
(* (transactions/serializers.py) and the asynchronous completion task     *)
(* process_external_transfer (transactions/tasks.py).                     *)
(*                                                                         *)
(* Money is counted in cents (DecimalField, decimal_places=2).  Each       *)
(* request first validates against Account rows it loads into memory and   *)
(* later, in create(), writes values computed from those in-memory copies. *)
(* The database runs at READ COMMITTED without row locks, so other         *)
(* requests may commit between the two steps.                              *)
(***************************************************************************)
EXTENDS Integers, Sequences, FiniteSets, TLC

\* ------------------------------------------------------------------ bounds
MaxReq == 2
NumWorkers == 2

AcctSeq == <<"A", "B">>
Accts == {AcctSeq[i] : i \in DOMAIN AcctSeq}
Reqs == 1..MaxReq
Workers == 1..NumWorkers
Amounts == {100, 200}
OpeningBalances == {0, 300}
LargeBalance == 6000000
MaxHolds == 2
MaxConversions == 2
MaxDay == 62
MaxExecutions == 3
MaxRuns == 2

\* --------------------------------------------------------- program constants
max_retries == 3
WithdrawDailyLimit == 1000000
TransferDailyLimit == 5000000
ExternalDailyLimit == 2500000
MaxDepositAmount == 100000000
MinAmount == 1
ArchiveAfterDays == 30
SpreadThreshold == 1000000
ACCOUNT_ACTIVE_STATUS == "active"

AccountStatus == {"active", "frozen"}

\* Fields of transactions.models.Transaction (with TimeStampedModel's).
TransactionFields ==
    {"id", "transaction_id", "account", "user", "transaction_type", "amount",
     "currency", "exchange_rate", "balance_before", "balance_after", "status",
     "method", "description", "category", "reference_number", "processed_at",
     "processed_by", "external_reference", "fee_amount", "metadata", "notes",
     "created_at", "updated_at"}

\* Transaction columns that are NOT NULL and have no default.
TransactionRequired ==
    {"account", "user", "transaction_type", "amount", "currency",
     "balance_before", "balance_after"}

\* Keyword arguments process_external_transfer passes to
\* Transaction.objects.create.
ExternalDebitKwargs ==
    {"account", "transaction_type", "amount", "description",
     "reference_number", "balance_before", "balance_after", "status",
     "tenant_id"}

\* Attributes of accounts.models.Account (fields plus TimeStampedModel's).
AccountFields ==
    {"id", "account_number", "user", "account_type", "currency", "balance",
     "available_balance", "status", "daily_withdrawal_limit",
     "daily_transfer_limit", "monthly_withdrawal_limit", "interest_rate",
     "last_interest_calculated", "overdraft_limit", "overdraft_fee",
     "opened_date", "closed_date", "notes", "created_at", "updated_at"}

VARIABLES
    balance,        \* Account.balance, committed value per account
    updated_at,     \* Account.updated_at as a logical clock: bumped by every save
    acct_status,    \* Account.status
    overdraft_limit,\* Account.overdraft_limit
    txns,           \* the Transaction table in creation order
    transfers,      \* the Transfer table in creation order (id = index)
    req,            \* the request handlers: position and in-memory Account copies
    queue,          \* messages of process_external_transfer waiting at the broker
    worker,         \* the task workers: position and in-memory copies
    outcome,        \* what the completion task reported last (log line, notification)
    today,          \* the current date, as a day number
    available_balance, \* Account.available_balance, committed value per account
    holds,          \* the AccountHold table in creation order (id = index)
    hold_copy,      \* AccountHold objects loaded into memory, one per handler
    currency,       \* Account.currency (its code)
    conversions,    \* the CurrencyConversion records, newest last
    sched,          \* the ScheduledTransaction table
    task_results,   \* django_celery_results: what each run of the schedule job returned
    limits,         \* the TransactionLimit row of each account
    request_user,   \* request.user of each handler's request
    row_lock,       \* the request whose open database transaction wrote the Account row, or 0
    rates           \* the ExchangeRate table

hold_vars == <<available_balance, holds, hold_copy>>

fx_vars == <<currency, conversions>>

sched_vars == <<sched, task_results>>

\* What the ledger operations read but never write.
side_vars == <<limits, request_user, row_lock, rates>>

vars == <<balance, updated_at, acct_status, overdraft_limit, txns, transfers,
          req, queue, worker, outcome, today, hold_vars, fx_vars, sched_vars,
          side_vars>>

\* -------------------------------------------------------------- helpers
IdleReq ==
    [pc |-> "idle", op |-> "none", from |-> "A", to |-> "A", amount |-> 0,
     from_balance |-> 0, to_balance |-> 0, seen |-> 0, seen_to |-> 0,
     fee |-> 0, step |-> 0,
     result |-> "none", reason |-> "none", response |-> <<>>]

\* A handler that has answered: the in-memory objects are gone.
Answered(op, result) ==
    [IdleReq EXCEPT !.pc = "done", !.op = op, !.result = result]

\* A handler whose serializer raised ValidationError: the view answers
\* 400 with the message, create() is never called.
Rejected(op, reason) ==
    [Answered(op, "rejected") EXCEPT !.reason = reason]

IdleWorker ==
    [pc |-> "idle", tid |-> 0, retries |-> 0, from_balance |-> 0, seen |-> 0]

\* What an invocation of the task reported: the Transfer, the branch taken
\* (its log line / notification) and the answer of the external bank, if asked.
Outcome(tid, what, settlement) ==
    [tid |-> tid, what |-> what, settlement |-> settlement]

NoOutcome == Outcome(0, "none", "none")

RECURSIVE SumAmounts(_)
\* aggregate(total=Sum('amount')) over the rows a filter() kept, or 0.
SumAmounts(rows) ==
    IF rows = <<>> THEN 0
    ELSE Head(rows).amount + SumAmounts(Tail(rows))

\* transfer_fee as stored: amount * Decimal('0.01') rounded to the scale of
\* DecimalField(max_digits=10, decimal_places=2) by the numeric column
\* (PostgreSQL rounds ties away from zero).
StoredFee(amount) ==
    LET q == amount \div 100
        r == amount % 100
    IN  IF r < 50 THEN q ELSE q + 1

\* A Transaction row.  origin (the Transfer that produced it, 0 for none) and
\* seen (Account.updated_at of the in-memory row its balances were computed
\* from) are kept for the analysis; the table has no such columns.
NewTxn(account, type, amount, before, after, status, ref, origin, seen) ==
    [account |-> account, transaction_type |-> type, amount |-> amount,
     balance_before |-> before, balance_after |-> after, status |-> status,
     reference_number |-> ref, created_at |-> today, origin |-> origin,
     seen |-> seen]

NewTransfer(from, to, amount, type, status, fee) ==
    [from_account |-> from, to_account |-> to, amount |-> amount,
     transfer_type |-> type, status |-> status, transfer_fee |-> fee,
     reference_number |-> 0, processed_at |-> FALSE, created_at |-> today,
     exchange_rate |-> 0]

\* The ExchangeRate rows of a deployment that quotes both directions: rate
\* and spread in hundredths.
ExchangeRates ==
    {[from_currency |-> "USD", to_currency |-> "EUR", rate |-> 85, spread |-> 1,
      is_active |-> TRUE],
     [from_currency |-> "EUR", to_currency |-> "USD", rate |-> 118, spread |-> 1,
      is_active |-> TRUE]}

\* ------------------------------------------------------------------ Init
\* An account opened earlier with a deposit already carries that deposit in
\* the ledger.
RECURSIVE OpeningLedger(_, _)
OpeningLedger(accts, bal) ==
    IF accts = <<>> THEN <<>>
    ELSE LET a == Head(accts)
         IN  (IF bal[a] > 0
              THEN <<NewTxn(a, "deposit", bal[a], 0, bal[a], "completed",
                          1000 + Len(accts), 0, 0)>>
              ELSE <<>>) \o OpeningLedger(Tail(accts), bal)

\* TransactionLimit.limit_amount of the limits in the model, 150.00.
LimitAmount == 15000

\* The handler serves no request.
NoUser == "none"

\* No AccountHold object is in memory.
NoHoldCopy ==
    [h |-> 0, is_active |-> FALSE]

\* Accounts are created with available_balance 0.00 and the opening deposit
\* does not write it.
InitLedger ==
    /\ today = 0
    /\ updated_at = [a \in Accts |-> 0]
    /\ available_balance = [a \in Accts |-> 0]
    /\ holds = <<>>
    /\ hold_copy = [r \in Reqs |-> NoHoldCopy]
    /\ conversions = <<>>
    /\ task_results = <<>>
    /\ limits = [a \in Accts |->
                    [transaction_type |-> "withdrawal", limit_type |-> "daily",
                     limit_amount |-> LimitAmount, current_period_usage |-> 0,
                     is_active |-> TRUE]]
    /\ request_user = [r \in Reqs |-> NoUser]
    /\ row_lock = [a \in Accts |-> 0]
    /\ overdraft_limit = [a \in Accts |-> IF a = "B" THEN 100 ELSE 0]
    /\ txns = OpeningLedger(AcctSeq, balance)
    /\ transfers = <<>>
    /\ req = [r \in Reqs |-> IdleReq]
    /\ queue = {}
    /\ worker = [w \in Workers |-> IdleWorker]
    /\ outcome = NoOutcome

Init ==
    /\ balance \in [Accts -> OpeningBalances]
    /\ InitLedger
    /\ sched = <<>>
    /\ rates = ExchangeRates
    /\ acct_status = [a \in Accts |-> "active"]
    /\ currency = [a \in Accts |-> "USD"]

\* ---------------------------------------------------------------- Deposit
\* DepositSerializer.validate_account_id / validate_amount
DepositValidate(r, a, amt) ==
    /\ req[r].pc = "idle"
    /\ LET why == IF acct_status[a] # "active" THEN "account"
                  ELSE IF amt < MinAmount THEN "amount"
                  ELSE IF amt <= 0 THEN "amount"
                  ELSE IF amt > MaxDepositAmount THEN "amount"
                  ELSE "ok"
       IN  req' = [req EXCEPT ![r] =
                IF why # "ok" THEN Rejected("deposit", why)
                ELSE [IdleReq EXCEPT !.pc = "validated",
                                !.op = "deposit", !.from = a, !.amount = amt,
                                !.from_balance = balance[a],
                                !.seen = updated_at[a]]]
    /\ UNCHANGED <<balance, updated_at, acct_status, overdraft_limit, hold_vars, fx_vars,
                   sched_vars, txns,
                   transfers, queue, worker, outcome, today,
                   side_vars>>

\* DepositSerializer.create
DepositCreate(r) ==
    /\ req[r].pc = "validated"
    /\ req[r].op = "deposit"
    /\ LET a == req[r].from
           amt == req[r].amount
           cur == req[r].from_balance
       IN  /\ txns' = Append(txns, NewTxn(a, "deposit", amt, cur, cur + amt,
                                          "completed", Len(txns) + 2, 0,
                                          req[r].seen))
           /\ balance' = [balance EXCEPT ![a] = cur + amt]
           /\ updated_at' = [updated_at EXCEPT ![a] = @ + 1]
           /\ req' = [req EXCEPT ![r] = Answered("deposit", "ok")]
    /\ UNCHANGED <<acct_status, overdraft_limit, hold_vars, fx_vars,
                   sched_vars, transfers, queue, worker, outcome, today,
                   side_vars>>

\* --------------------------------------------------------------- Withdraw
\* The withdrawals the daily-limit query of WithdrawSerializer.validate sums.
TodayWithdrawals(a) ==
    SumAmounts(SelectSeq(txns, LAMBDA t : /\ t.account = a
                                          /\ t.transaction_type = "DEBIT"
                                          /\ t.created_at = today
                                          /\ t.status = "COMPLETED"))

\* WithdrawValidate without the funds check.
WithdrawValidate_NoFundsCheck(r, a, amt) ==
    /\ req[r].pc = "idle"
    /\ LET why == IF acct_status[a] # "active" THEN "account"
                  ELSE IF amt < MinAmount THEN "amount"
                  ELSE IF TodayWithdrawals(a) + amt > WithdrawDailyLimit
                       THEN "daily_limit"
                  ELSE "ok"
       IN  req' = [req EXCEPT ![r] =
                IF why # "ok" THEN Rejected("withdraw", why)
                ELSE [IdleReq EXCEPT !.pc = "validated",
                                !.op = "withdraw", !.from = a, !.amount = amt,
                                !.from_balance = balance[a],
                                !.seen = updated_at[a]]]
    /\ UNCHANGED <<balance, updated_at, acct_status, overdraft_limit, hold_vars, fx_vars,
                   sched_vars, txns,
                   transfers, queue, worker, outcome, today,
                   side_vars>>

\* WithdrawSerializer.validate_account_id / validate
WithdrawValidate(r, a, amt) ==
    /\ req[r].pc = "idle"
    /\ LET why == IF acct_status[a] # "active" THEN "account"
                  ELSE IF amt < MinAmount THEN "amount"
                  ELSE IF balance[a] < amt THEN "insufficient"
                  ELSE IF TodayWithdrawals(a) + amt > WithdrawDailyLimit
                       THEN "daily_limit"
                  ELSE "ok"
       IN  req' = [req EXCEPT ![r] =
                IF why # "ok" THEN Rejected("withdraw", why)
                ELSE [IdleReq EXCEPT !.pc = "validated",
                                !.op = "withdraw", !.from = a, !.amount = amt,
                                !.from_balance = balance[a],
                                !.seen = updated_at[a]]]
    /\ UNCHANGED <<balance, updated_at, acct_status, overdraft_limit, hold_vars, fx_vars,
                   sched_vars, txns,
                   transfers, queue, worker, outcome, today,
                   side_vars>>

\* WithdrawSerializer.create
WithdrawCreate(r) ==
    /\ req[r].pc = "validated"
    /\ req[r].op = "withdraw"
    /\ LET a == req[r].from
           amt == req[r].amount
           cur == req[r].from_balance
       IN  /\ txns' = Append(txns, NewTxn(a, "withdrawal", amt, cur, cur - amt,
                                          "completed", 0, 0, req[r].seen))
           /\ balance' = [balance EXCEPT ![a] = cur - amt]
           /\ updated_at' = [updated_at EXCEPT ![a] = @ + 1]
           /\ req' = [req EXCEPT ![r] = Answered("withdraw", "ok")]
    /\ UNCHANGED <<acct_status, overdraft_limit, hold_vars, fx_vars,
                   sched_vars, transfers, queue, worker, outcome, today,
                   side_vars>>

\* ------------------------------------------------------- InternalTransfer
\* The transfers the daily-limit query of InternalTransferSerializer.validate sums.
TodayTransfers(a) ==
    SumAmounts(SelectSeq(transfers, LAMBDA t : /\ t.from_account = a
                                               /\ t.created_at = today
                                               /\ t.status = "COMPLETED"))

\* InternalValidate that lets a transfer to the same account through.
InternalValidate_SameAccount(r, f, t, amt) ==
    /\ req[r].pc = "idle"
    /\ LET why == IF amt < MinAmount THEN "amount"
                  ELSE IF acct_status[f] # ACCOUNT_ACTIVE_STATUS THEN "account"
                  ELSE IF acct_status[t] # ACCOUNT_ACTIVE_STATUS THEN "account"
                  ELSE IF balance[f] < amt THEN "insufficient"
                  ELSE IF TodayTransfers(f) + amt > TransferDailyLimit
                       THEN "daily_limit"
                  ELSE "ok"
       IN  req' = [req EXCEPT ![r] =
                IF why # "ok" THEN Rejected("internal", why)
                ELSE [IdleReq EXCEPT !.pc = "validated",
                                !.op = "internal", !.from = f, !.to = t,
                                !.amount = amt,
                                !.from_balance = balance[f],
                                !.to_balance = balance[t],
                                !.seen = updated_at[f],
                                !.seen_to = updated_at[t]]]
    /\ UNCHANGED <<balance, updated_at, acct_status, overdraft_limit, hold_vars, fx_vars,
                   sched_vars, txns,
                   transfers, queue, worker, outcome, today,
                   side_vars>>

\* InternalTransferSerializer.validate
InternalValidate(r, f, t, amt) ==
    /\ req[r].pc = "idle"
    /\ LET why == IF amt < MinAmount THEN "amount"
                  ELSE IF acct_status[f] # ACCOUNT_ACTIVE_STATUS THEN "account"
                  ELSE IF acct_status[t] # ACCOUNT_ACTIVE_STATUS THEN "account"
                  ELSE IF f = t THEN "same_account"
                  ELSE IF balance[f] < amt THEN "insufficient"
                  ELSE IF TodayTransfers(f) + amt > TransferDailyLimit
                       THEN "daily_limit"
                  ELSE "ok"
       IN  req' = [req EXCEPT ![r] =
                IF why # "ok" THEN Rejected("internal", why)
                ELSE [IdleReq EXCEPT !.pc = "validated",
                                !.op = "internal", !.from = f, !.to = t,
                                !.amount = amt,
                                !.from_balance = balance[f],
                                !.to_balance = balance[t],
                                !.seen = updated_at[f],
                                !.seen_to = updated_at[t]]]
    /\ UNCHANGED <<balance, updated_at, acct_status, overdraft_limit, hold_vars, fx_vars,
                   sched_vars, txns,
                   transfers, queue, worker, outcome, today,
                   side_vars>>

\* InternalTransferSerializer.create: one transaction.atomic() block.
InternalCreate(r) ==
    /\ req[r].pc = "validated"
    /\ req[r].op = "internal"
    /\ LET f == req[r].from
           t == req[r].to
           amt == req[r].amount
           fb == req[r].from_balance
           tb == req[r].to_balance
           tid == Len(transfers) + 1
       IN  /\ transfers' = Append(transfers,
                   NewTransfer(f, t, amt, "INTERNAL", "COMPLETED", 0))
           /\ txns' = txns \o
                   <<NewTxn(f, "DEBIT", amt, fb, fb - amt, "COMPLETED", 0, tid,
                            req[r].seen),
                     NewTxn(t, "CREDIT", amt, tb, tb + amt, "COMPLETED", 0, tid,
                            req[r].seen_to)>>
           /\ balance' = [balance EXCEPT ![f] = fb - amt, ![t] = tb + amt]
           /\ updated_at' = [updated_at EXCEPT ![f] = @ + 1, ![t] = @ + 1]
           /\ req' = [req EXCEPT ![r] = Answered("internal", "ok")]
    /\ UNCHANGED <<acct_status, overdraft_limit, hold_vars, fx_vars,
                   sched_vars, queue, worker, outcome,
                   today,
                   side_vars>>

\* The tables as the transaction of InternalTransferSerializer.create sees
\* them after its first k statements: Transfer.objects.create, the debit
\* Transaction.objects.create, the credit Transaction.objects.create,
\* from_account.save and to_account.save.
InternalWrites(r, k) ==
    LET f == req[r].from
        t == req[r].to
        amt == req[r].amount
        fb == req[r].from_balance
        tb == req[r].to_balance
        tid == Len(transfers) + 1
        debit == NewTxn(f, "DEBIT", amt, fb, fb - amt, "COMPLETED", 0, tid,
                        req[r].seen)
        credit == NewTxn(t, "CREDIT", amt, tb, tb + amt, "COMPLETED", 0, tid,
                         req[r].seen_to)
        tx2 == IF k >= 2 THEN Append(txns, debit) ELSE txns
        b4 == IF k >= 4 THEN [balance EXCEPT ![f] = fb - amt] ELSE balance
        u4 == IF k >= 4 THEN [updated_at EXCEPT ![f] = @ + 1] ELSE updated_at
    IN  [transfers |-> IF k >= 1
                       THEN Append(transfers,
                               NewTransfer(f, t, amt, "INTERNAL", "COMPLETED", 0))
                       ELSE transfers,
         txns |-> IF k >= 3 THEN Append(tx2, credit) ELSE tx2,
         balance |-> IF k >= 5 THEN [b4 EXCEPT ![t] = tb + amt] ELSE b4,
         updated_at |-> IF k >= 5 THEN [u4 EXCEPT ![t] = @ + 1] ELSE u4]

\* One statement of the atomic block ran: its write stays inside the
\* database transaction, other requests still read the committed rows.
InternalStep(r) ==
    /\ req[r].pc = "validated"
    /\ req[r].op = "internal"
    /\ req[r].step < 5
    /\ req' = [req EXCEPT ![r].step = @ + 1]
    /\ UNCHANGED <<balance, updated_at, acct_status, overdraft_limit, hold_vars, fx_vars,
                   sched_vars, txns,
                   transfers, queue, worker, outcome, today,
                   side_vars>>

\* An exception that leaves the writes made so far in the database.
InternalFail_KeepsWrites(r) ==
    /\ req[r].pc = "validated"
    /\ req[r].op = "internal"
    /\ req[r].step < 5
    /\ LET w == InternalWrites(r, req[r].step)
       IN  /\ transfers' = w.transfers
           /\ txns' = w.txns
           /\ balance' = w.balance
           /\ updated_at' = w.updated_at
    /\ req' = [req EXCEPT ![r] =
                [Answered("internal", "error") EXCEPT !.step = req[r].step]]
    /\ UNCHANGED <<acct_status, overdraft_limit, hold_vars, fx_vars,
                   sched_vars, queue, worker, outcome,
                   today,
                   side_vars>>

\* The next statement of the atomic block raised (a database error, a
\* transaction_id collision): transaction.atomic() rolls back and the
\* exception leaves create().  step keeps how many statements had run.
InternalFail(r) ==
    /\ req[r].pc = "validated"
    /\ req[r].op = "internal"
    /\ req[r].step < 5
    /\ req' = [req EXCEPT ![r] =
                [Answered("internal", "error") EXCEPT !.step = req[r].step]]
    /\ UNCHANGED <<balance, updated_at, acct_status, overdraft_limit, hold_vars, fx_vars,
                   sched_vars, txns,
                   transfers, queue, worker, outcome, today,
                   side_vars>>

\* The atomic block ends: all five writes are committed together.
InternalCommit(r) ==
    /\ req[r].pc = "validated"
    /\ req[r].op = "internal"
    /\ req[r].step = 5
    /\ LET w == InternalWrites(r, 5)
       IN  /\ transfers' = w.transfers
           /\ txns' = w.txns
           /\ balance' = w.balance
           /\ updated_at' = w.updated_at
    /\ req' = [req EXCEPT ![r] = Answered("internal", "ok")]
    /\ UNCHANGED <<acct_status, overdraft_limit, hold_vars, fx_vars,
                   sched_vars, queue, worker, outcome,
                   today,
                   side_vars>>

\* ------------------------------------------------------- ExternalTransfer
\* The transfers the daily-limit query of ExternalTransferSerializer.validate sums.
TodayExternal(a) ==
    SumAmounts(SelectSeq(transfers, LAMBDA t : /\ t.from_account = a
                                               /\ t.transfer_type = "EXTERNAL"
                                               /\ t.created_at = today
                                               /\ t.status \in {"COMPLETED", "PENDING"}))

\* ExternalTransferSerializer.validate_from_account_id / validate.
\* fee_amount = amount * Decimal('0.01') is not rounded here: a balance in
\* whole cents is below amount + fee when it is below amount plus the whole
\* cents of the fee, plus one cent if the fee has a fraction of a cent.
ExternalValidate(r, f, amt) ==
    /\ req[r].pc = "idle"
    /\ LET why == IF acct_status[f] # ACCOUNT_ACTIVE_STATUS THEN "account"
                  ELSE IF amt < MinAmount THEN "amount"
                  ELSE IF balance[f] < amt + (amt \div 100)
                                            + (IF amt % 100 > 0 THEN 1 ELSE 0)
                       THEN "insufficient"
                  ELSE IF TodayExternal(f) + amt > ExternalDailyLimit
                       THEN "daily_limit"
                  ELSE "ok"
       IN  req' = [req EXCEPT ![r] =
                IF why # "ok" THEN Rejected("external", why)
                ELSE [IdleReq EXCEPT !.pc = "validated",
                                !.op = "external", !.from = f, !.amount = amt,
                                !.from_balance = balance[f],
                                !.seen = updated_at[f],
                                !.fee = StoredFee(amt)]]
    /\ UNCHANGED <<balance, updated_at, acct_status, overdraft_limit, hold_vars, fx_vars,
                   sched_vars, txns,
                   transfers, queue, worker, outcome, today,
                   side_vars>>

\* ExternalCreate that already takes amount + fee from the balance.
ExternalCreate_Debits(r) ==
    /\ req[r].pc = "validated"
    /\ req[r].op = "external"
    /\ LET tid == Len(transfers) + 1
       IN  /\ transfers' = Append(transfers,
                   NewTransfer(req[r].from, "none", req[r].amount, "EXTERNAL",
                               "PENDING", req[r].fee))
           /\ queue' = queue \cup {[tid |-> tid, retries |-> 0]}
           /\ balance' = [balance EXCEPT ![req[r].from] =
                               req[r].from_balance - (req[r].amount + req[r].fee)]
           /\ req' = [req EXCEPT ![r] = Answered("external", "ok")]
    /\ UNCHANGED <<updated_at, acct_status, overdraft_limit, hold_vars, fx_vars,
                   sched_vars, txns,
                   worker, outcome, today,
                   side_vars>>

\* ExternalTransferSerializer.create: a PENDING Transfer and
\* process_external_transfer.delay(transfer.id).
ExternalCreate(r) ==
    /\ req[r].pc = "validated"
    /\ req[r].op = "external"
    /\ LET tid == Len(transfers) + 1
       IN  /\ transfers' = Append(transfers,
                   NewTransfer(req[r].from, "none", req[r].amount, "EXTERNAL",
                               "PENDING", req[r].fee))
           /\ queue' = queue \cup {[tid |-> tid, retries |-> 0]}
           /\ req' = [req EXCEPT ![r] = Answered("external", "ok")]
    /\ UNCHANGED <<balance, updated_at, acct_status, overdraft_limit, hold_vars, fx_vars,
                   sched_vars, txns,
                   worker, outcome, today,
                   side_vars>>

\* --------------------------------------------- process_external_transfer
\* Whether the task's Transaction.objects.create(...) call can succeed: the
\* argument from_account.tenant_id must evaluate, every keyword must be a
\* field of Transaction, and every required column must be given.
ExternalDebitCreatable ==
    /\ "tenant_id" \in AccountFields
    /\ ExternalDebitKwargs \subseteq TransactionFields
    /\ TransactionRequired \subseteq ExternalDebitKwargs

\* An except handler that never marks the Transfer FAILED.
HandlerTransfers_NeverFails(tid, retries) ==
    transfers

\* The Transfer table after the except handler ran for an invocation with
\* request.retries = retries: FAILED once the retries are used up.
HandlerTransfers(tid, retries) ==
    IF retries >= max_retries
    THEN [transfers EXCEPT ![tid].status = "FAILED"]
    ELSE transfers

\* The broker after self.retry(exc, countdown=60): a new message while
\* retries remain, nothing (the exception is re-raised) afterwards.
HandlerQueue(q, tid, retries) ==
    IF retries < max_retries
    THEN q \cup {[tid |-> tid, retries |-> retries + 1]}
    ELSE q

\* TaskFetch without the check that the Transfer is still PENDING.
TaskFetch_NoGuard(w, m, err, ack) ==
    /\ worker[w].pc = "idle"
    /\ m \in queue
    /\ LET tid == m.tid
           tr == transfers[tid]
           total == tr.amount + tr.transfer_fee
           q == IF ack THEN queue \ {m} ELSE queue
       IN  IF err
           THEN /\ transfers' = HandlerTransfers(tid, m.retries)
                /\ queue' = HandlerQueue(q, tid, m.retries)
                /\ outcome' = Outcome(tid, "error", "none")
                /\ UNCHANGED worker
           ELSE IF balance[tr.from_account] < total
           THEN /\ transfers' = [transfers EXCEPT ![tid].status = "FAILED"]
                /\ queue' = q
                /\ outcome' = Outcome(tid, "insufficient", "none")
                /\ UNCHANGED worker
           ELSE /\ queue' = q
                /\ worker' = [worker EXCEPT ![w] =
                        [pc |-> "processing", tid |-> tid,
                         retries |-> m.retries,
                         from_balance |-> balance[tr.from_account],
                         seen |-> updated_at[tr.from_account]]]
                /\ UNCHANGED <<transfers, outcome>>
    /\ UNCHANGED <<balance, updated_at, acct_status, overdraft_limit, hold_vars, fx_vars,
                   sched_vars, txns, req,
                   today,
                   side_vars>>

\* process_external_transfer up to the balance check (tasks.py 16-39).
\* err: Transfer.objects.get raised a transient error.  ack: the broker got
\* the acknowledgement; without it the message stays and is delivered again
\* (at-least-once delivery).
TaskFetch(w, m, err, ack) ==
    /\ worker[w].pc = "idle"
    /\ m \in queue
    /\ LET tid == m.tid
           tr == transfers[tid]
           total == tr.amount + tr.transfer_fee
           q == IF ack THEN queue \ {m} ELSE queue
       IN  IF err
           THEN /\ transfers' = HandlerTransfers(tid, m.retries)
                /\ queue' = HandlerQueue(q, tid, m.retries)
                /\ outcome' = Outcome(tid, "error", "none")
                /\ UNCHANGED worker
           ELSE IF tr.status # "PENDING"
           THEN /\ queue' = q
                /\ outcome' = Outcome(tid, "skipped", "none")
                /\ UNCHANGED <<transfers, worker>>
           ELSE IF balance[tr.from_account] < total
           THEN /\ transfers' = [transfers EXCEPT ![tid].status = "FAILED"]
                /\ queue' = q
                /\ outcome' = Outcome(tid, "insufficient", "none")
                /\ UNCHANGED worker
           ELSE /\ queue' = q
                /\ worker' = [worker EXCEPT ![w] =
                        [pc |-> "processing", tid |-> tid,
                         retries |-> m.retries,
                         from_balance |-> balance[tr.from_account],
                         seen |-> updated_at[tr.from_account]]]
                /\ UNCHANGED <<transfers, outcome>>
    /\ UNCHANGED <<balance, updated_at, acct_status, overdraft_limit, hold_vars, fx_vars,
                   sched_vars, txns, req,
                   today,
                   side_vars>>

\* The transaction.atomic() block of process_external_transfer and, when it
\* raises, the except handler (tasks.py 41-98).
TaskProcess(w, external_success) ==
    /\ worker[w].pc = "processing"
    /\ LET tid == worker[w].tid
           tr == transfers[tid]
           f == tr.from_account
           total == tr.amount + tr.transfer_fee
           fb == worker[w].from_balance
       IN  IF ~external_success
           THEN /\ transfers' = [transfers EXCEPT ![tid].status = "FAILED"]
                /\ outcome' = Outcome(tid, "declined", "declined")
                /\ UNCHANGED <<balance, updated_at, txns, queue>>
           ELSE IF ExternalDebitCreatable
           THEN /\ transfers' = [transfers EXCEPT ![tid].status = "COMPLETED",
                                                  ![tid].processed_at = TRUE]
                /\ txns' = Append(txns, NewTxn(f, "DEBIT", total, fb, fb - total,
                                               "COMPLETED", tr.reference_number,
                                               tid, worker[w].seen))
                /\ balance' = [balance EXCEPT ![f] = fb - total]
                /\ updated_at' = [updated_at EXCEPT ![f] = @ + 1]
                /\ outcome' = Outcome(tid, "completed", "accepted")
                /\ UNCHANGED queue
           ELSE /\ transfers' = HandlerTransfers(tid, worker[w].retries)
                /\ queue' = HandlerQueue(queue, tid, worker[w].retries)
                /\ outcome' = Outcome(tid, "error", "accepted")
                /\ UNCHANGED <<balance, updated_at, txns>>
    /\ worker' = [worker EXCEPT ![w] = IdleWorker]
    /\ UNCHANGED <<acct_status, overdraft_limit, hold_vars, fx_vars,
                   sched_vars, req, today,
                   side_vars>>

\* process_external_transfer from the atomic block on when
\* send_transfer_notification.delay(...) raises.  The call stands inside the
\* atomic block and inside the task's try: the block's writes are rolled
\* back and the except handler runs; the handler's own delay(...) is under a
\* bare except, after its save().
TaskProcessNotifyRaises(w, external_success) ==
    /\ worker[w].pc = "processing"
    /\ LET tid == worker[w].tid
       IN  /\ transfers' = HandlerTransfers(tid, worker[w].retries)
           /\ queue' = HandlerQueue(queue, tid, worker[w].retries)
           /\ outcome' = Outcome(tid, "error",
                                 IF external_success THEN "accepted"
                                 ELSE "declined")
    /\ worker' = [worker EXCEPT ![w] = IdleWorker]
    /\ UNCHANGED <<balance, updated_at, txns, acct_status, overdraft_limit,
                   hold_vars, fx_vars, sched_vars, req, today,
                   side_vars>>

\* ------------------------------------------------------------ AccountHold
\* AccountHoldListCreateView, POST: the ModelSerializer inserts the row,
\* is_active defaults to True; no Account is written.
HoldCreate(a, amt) ==
    /\ Len(holds) < MaxHolds
    /\ holds' = Append(holds, [account |-> a, amount |-> amt, is_active |-> TRUE])
    /\ UNCHANGED <<balance, updated_at, acct_status, overdraft_limit,
                   available_balance, hold_copy, fx_vars, sched_vars, txns,
                   transfers, req, queue, worker, outcome, today,
                   side_vars>>

\* AccountHoldDetailView.destroy
HoldDestroy(h) ==
    /\ h \in DOMAIN holds
    /\ holds' = [holds EXCEPT ![h].is_active = FALSE]
    /\ UNCHANGED <<balance, updated_at, acct_status, overdraft_limit,
                   available_balance, hold_copy, fx_vars, sched_vars, txns,
                   transfers, req, queue, worker, outcome, today,
                   side_vars>>

\* AccountHold.objects.get(...): handler r holds an in-memory copy of row h.
HoldLoad(r, h) ==
    /\ hold_copy[r].h = 0
    /\ h \in DOMAIN holds
    /\ hold_copy' = [hold_copy EXCEPT ![r] =
                        [h |-> h, is_active |-> holds[h].is_active]]
    /\ UNCHANGED <<balance, updated_at, acct_status, overdraft_limit,
                   available_balance, holds, fx_vars, sched_vars, txns,
                   transfers, req, queue, worker, outcome, today,
                   side_vars>>

\* AccountHold.release on the copy of handler r: is_active is tested on the
\* copy; self.account is fetched on its first use, here.
HoldRelease(r) ==
    /\ hold_copy[r].h # 0
    /\ LET h == hold_copy[r].h
           a == holds[h].account
       IN  IF hold_copy[r].is_active
           THEN /\ available_balance' =
                       [available_balance EXCEPT ![a] = @ + holds[h].amount]
                /\ holds' = [holds EXCEPT ![h].is_active = FALSE]
                /\ hold_copy' = [hold_copy EXCEPT ![r].is_active = FALSE]
           ELSE UNCHANGED <<available_balance, holds, hold_copy>>
    /\ UNCHANGED <<balance, updated_at, acct_status, overdraft_limit,
                   fx_vars, sched_vars, txns, transfers, req, queue, worker,
                   outcome, today,
                   side_vars>>

\* --------------------------------------------------------------- currency
\* The rows ExchangeRate.objects.get(from_currency=..., to_currency=...,
\* is_active=True) can return.
ActiveRate(from, to) ==
    {x \in rates : x.from_currency = from /\ x.to_currency = to /\ x.is_active}

\* Decimal('1') / base_rate on a rate in hundredths; the rates of the model
\* divide 10000, so the quotient is exact.
Inverse(rate) ==
    10000 \div rate

\* A lookup that never tries the reverse pair.
RateFor_DirectOnly(from, to) ==
    IF ActiveRate(from, to) # {}
    THEN LET x == CHOOSE x \in ActiveRate(from, to) : TRUE
         IN  [found |-> TRUE, rate |-> x.rate, spread |-> x.spread,
              reverse |-> FALSE]
    ELSE [found |-> FALSE, rate |-> 0, spread |-> 0, reverse |-> FALSE]

\* The rate lookup of validate() with the base rate create() derives from
\* it: the active from -> to row; without one the active to -> from row,
\* inverted; without either nothing.
RateFor(from, to) ==
    IF ActiveRate(from, to) # {}
    THEN LET x == CHOOSE x \in ActiveRate(from, to) : TRUE
         IN  [found |-> TRUE, rate |-> x.rate, spread |-> x.spread,
              reverse |-> FALSE]
    ELSE IF ActiveRate(to, from) # {}
    THEN LET x == CHOOSE x \in ActiveRate(to, from) : TRUE
         IN  [found |-> TRUE, rate |-> Inverse(x.rate), spread |-> x.spread,
              reverse |-> TRUE]
    ELSE [found |-> FALSE, rate |-> 0, spread |-> 0, reverse |-> FALSE]

\* total_rate with the spread applied from amount >= 10000 on.
TotalRate_FromThreshold(amt, rate, spread) ==
    IF amt >= SpreadThreshold THEN rate * (100 - spread) ELSE rate * 100

\* total_rate in ten-thousandths: base_rate * (1 - spread) when
\* amount > Decimal('10000'), base_rate otherwise.
TotalRate(amt, rate, spread) ==
    IF amt > SpreadThreshold THEN rate * (100 - spread) ELSE rate * 100

\* amount * total_rate as the Decimal product: whole cents and the
\* remaining ten-thousandths of a cent (amt in cents, total in
\* ten-thousandths).
Product(amt, total) ==
    LET p == (amt \div 100) * total
        low == (p % 100) * 100 + (amt % 100) * total
    IN  [cents |-> p \div 100 + low \div 10000, rest |-> low % 10000]

\* A Decimal as the numeric(15, 2) column keeps it.
Stored(x) ==
    IF 2 * x.rest >= 10000 THEN x.cents + 1 ELSE x.cents

\* CurrencyConvertView: ConvertCurrencySerializer.validate and create.  A
\* request that passes validation stores one CurrencyConversion row.
ConvertCurrency(r, from, to, amt) ==
    /\ req[r].pc = "idle"
    /\ Len(conversions) < MaxConversions
    /\ LET x == RateFor(from, to)
           total == TotalRate(amt, x.rate, x.spread)
           why == IF amt < MinAmount THEN "amount"
                  ELSE IF from = to THEN "same_currency"
                  ELSE IF ~x.found THEN "rate"
                  ELSE "ok"
       IN  IF why # "ok"
           THEN /\ req' = [req EXCEPT ![r] = Rejected("convert", why)]
                /\ UNCHANGED conversions
           ELSE /\ req' = [req EXCEPT ![r] =
                              [Answered("convert", "ok") EXCEPT !.amount = amt]]
                /\ conversions' = Append(conversions,
                      [from_currency |-> from, to_currency |-> to,
                       amount |-> amt,
                       converted_amount |-> Stored(Product(amt, total)),
                       exchange_rate |-> x.rate,
                       spread_applied |-> IF amt > SpreadThreshold
                                          THEN x.spread ELSE 0,
                       total_rate |-> total])
    /\ UNCHANGED <<balance, updated_at, acct_status, overdraft_limit, hold_vars,
                   currency, sched_vars, txns, transfers, queue, worker,
                   outcome, today,
                   side_vars>>

\* currency_conversion_calculator, with nothing in the cache: the response
\* carries the Decimals as computed, nothing is stored.
ConversionCalculator(r, from, to, amt) ==
    /\ req[r].pc = "idle"
    /\ req' = [req EXCEPT ![r] =
          IF amt <= 0 THEN Rejected("calculator", "amount")
          ELSE IF ~RateFor(from, to).found
          THEN Rejected("calculator", "rate")
          ELSE LET x == RateFor(from, to)
                   total == TotalRate(amt, x.rate, x.spread)
               IN  [Answered("calculator", "ok") EXCEPT
                        !.amount = amt,
                        !.response =
                            [base_rate |-> x.rate,
                             spread |-> IF amt > SpreadThreshold
                                        THEN x.spread ELSE 0,
                             final_rate |-> total,
                             converted_amount |-> Product(amt, total)]]]
    /\ UNCHANGED <<balance, updated_at, acct_status, overdraft_limit, hold_vars,
                   fx_vars, sched_vars, txns, transfers, queue, worker, outcome,
                   today,
                   side_vars>>

\* CurrencyTransferSerializer.validate: Account.objects.get(id=...,
\* is_active=True) names no field of Account and raises FieldError before
\* anything is read or written.
CurrencyTransfer(r, f, t, amt) ==
    /\ req[r].pc = "idle"
    /\ req' = [req EXCEPT ![r] =
                IF "is_active" \in AccountFields
                THEN Rejected("currency_transfer", "currency")
                ELSE Answered("currency_transfer", "error")]
    /\ UNCHANGED <<balance, updated_at, acct_status, overdraft_limit, hold_vars,
                   fx_vars, sched_vars, txns, transfers, queue, worker, outcome,
                   today,
                   side_vars>>

\* -------------------------------------------- internal transfer, row locks
\* InternalTransferSerializer.create up to from_account.save(...): the three
\* INSERTs wait for nothing; the UPDATE of the from_account row takes its row
\* lock, which the database holds until the atomic block ends, and waits
\* while another open transaction holds it.
SaveFromAccount(r) ==
    /\ req[r].pc = "validated"
    /\ req[r].op = "internal"
    /\ req[r].step = 0
    /\ row_lock[req[r].from] = 0
    /\ row_lock' = [row_lock EXCEPT ![req[r].from] = r]
    /\ req' = [req EXCEPT ![r].step = 4]
    /\ UNCHANGED <<balance, updated_at, acct_status, overdraft_limit,
                   hold_vars, fx_vars, sched_vars, txns, transfers, queue,
                   worker, outcome, today, limits, request_user, rates>>

\* to_account.save(...): the UPDATE of the to_account row, second.
SaveToAccount(r) ==
    /\ req[r].pc = "validated"
    /\ req[r].op = "internal"
    /\ req[r].step = 4
    /\ row_lock[req[r].to] = 0
    /\ row_lock' = [row_lock EXCEPT ![req[r].to] = r]
    /\ req' = [req EXCEPT ![r].step = 5]
    /\ UNCHANGED <<balance, updated_at, acct_status, overdraft_limit,
                   hold_vars, fx_vars, sched_vars, txns, transfers, queue,
                   worker, outcome, today, limits, request_user, rates>>

\* Request r holds the from_account row and its to_account.save() waits for
\* a row another open transaction holds.
WaitsFor(r, other) ==
    /\ req[r].pc = "validated"
    /\ req[r].op = "internal"
    /\ req[r].step = 4
    /\ other # r
    /\ row_lock[req[r].to] = other

\* The atomic block ends: the writes are committed, the row locks released.
AtomicExit(r) ==
    /\ req[r].pc = "validated"
    /\ req[r].op = "internal"
    /\ req[r].step = 5
    /\ LET w == InternalWrites(r, 5)
       IN  /\ transfers' = w.transfers
           /\ txns' = w.txns
           /\ balance' = w.balance
           /\ updated_at' = w.updated_at
    /\ row_lock' = [a \in Accts |-> IF row_lock[a] = r THEN 0 ELSE row_lock[a]]
    /\ req' = [req EXCEPT ![r] = Answered("internal", "ok")]
    /\ UNCHANGED <<acct_status, overdraft_limit, hold_vars, fx_vars,
                   sched_vars, queue, worker, outcome, today, limits,
                   request_user, rates>>

\* PostgreSQL finds a cycle of waiting transactions after deadlock_timeout
\* and aborts one of them: its save() raises OperationalError, the atomic
\* block rolls back and releases its row locks, the request fails.
DeadlockDetected(r) ==
    /\ \E other \in Reqs : WaitsFor(r, other) /\ WaitsFor(other, r)
    /\ row_lock' = [a \in Accts |-> IF row_lock[a] = r THEN 0 ELSE row_lock[a]]
    /\ req' = [req EXCEPT ![r] =
                [Answered("internal", "error") EXCEPT !.step = req[r].step]]
    /\ UNCHANGED <<balance, updated_at, acct_status, overdraft_limit,
                   hold_vars, fx_vars, sched_vars, txns, transfers, queue,
                   worker, outcome, today, limits, request_user, rates>>

\* ------------------------------------------------------------ permissions
\* Two customers and a staff user.
Users ==
    {"alice", "bob", "teller"}

\* Account.user
Owner ==
    [a \in Accts |-> IF a = "A" THEN "alice" ELSE "bob"]

\* User.is_staff
is_staff(u) ==
    u = "teller"

\* IsAuthenticated and CanPerformTransaction.has_permission: the request
\* carries an authenticated, active user.
Authenticate(r, u) ==
    /\ req[r].pc = "idle"
    /\ request_user[r] = NoUser
    /\ request_user' = [request_user EXCEPT ![r] = u]
    /\ UNCHANGED <<balance, updated_at, acct_status, overdraft_limit,
                   hold_vars, fx_vars, sched_vars, txns, transfers, req,
                   queue, worker, outcome, today, limits, row_lock, rates>>

\* The test the views make after is_valid(): the source account belongs to
\* request.user, or request.user is staff.
OwnsSource(r) ==
    Owner[req[r].from] = request_user[r] \/ is_staff(request_user[r])

\* DepositView, WithdrawView and InternalTransferView answer 403
\* 'Permission denied' without calling save().
PermissionDenied(r) ==
    /\ req[r].pc = "validated"
    /\ req[r].op \in {"deposit", "withdraw", "internal"}
    /\ ~OwnsSource(r)
    /\ req' = [req EXCEPT ![r] = Answered(req[r].op, "denied")]
    /\ UNCHANGED <<balance, updated_at, acct_status, overdraft_limit,
                   hold_vars, fx_vars, sched_vars, txns, transfers, queue,
                   worker, outcome, today, side_vars>>

\* ------------------------------------------------ Transaction endpoints
\* The fields of TransactionSerializer a client may write: Meta.fields less
\* the declared read-only ones and Meta.read_only_fields.
TransactionWritable ==
    {"account", "transaction_type", "amount", "description", "category",
     "status"}

\* TransactionListView, POST: ModelSerializer.create calls
\* Transaction.objects.create with the writable fields only; the INSERT
\* fails when a required column is not among them.
TransactionListCreate(r, a, amt) ==
    /\ req[r].pc = "idle"
    /\ IF TransactionRequired \subseteq TransactionWritable
       THEN /\ txns' = Append(txns, NewTxn(a, "deposit", amt, 0, 0, "pending",
                                           0, 0, 0))
            /\ req' = [req EXCEPT ![r] = Answered("transaction_create", "ok")]
       ELSE /\ req' = [req EXCEPT ![r] =
                          Answered("transaction_create", "error")]
            /\ UNCHANGED txns
    /\ UNCHANGED <<balance, updated_at, acct_status, overdraft_limit,
                   hold_vars, fx_vars, sched_vars, transfers, queue, worker,
                   outcome, today, side_vars>>

\* TransactionDetailView, PUT/PATCH on row i: the writable fields are saved
\* as sent; no Account is touched.
TransactionUpdate(i, a, amt, st) ==
    /\ i \in DOMAIN txns
    /\ txns' = [txns EXCEPT ![i].account = a, ![i].amount = amt,
                            ![i].status = st]
    /\ UNCHANGED <<balance, updated_at, acct_status, overdraft_limit,
                   hold_vars, fx_vars, sched_vars, transfers, req, queue,
                   worker, outcome, today, side_vars>>

\* TransactionDetailView, DELETE on row i: the row is deleted.
TransactionDestroy(i) ==
    /\ i \in DOMAIN txns
    /\ txns' = SubSeq(txns, 1, i - 1) \o SubSeq(txns, i + 1, Len(txns))
    /\ UNCHANGED <<balance, updated_at, acct_status, overdraft_limit,
                   hold_vars, fx_vars, sched_vars, transfers, req, queue,
                   worker, outcome, today, side_vars>>

\* ------------------------------------------------------ status operations
\* Time passes: timezone.now() moves past the next cutoff_date.
DaysPass ==
    /\ today + ArchiveAfterDays + 1 <= MaxDay
    /\ today' = today + ArchiveAfterDays + 1
    /\ UNCHANGED <<balance, updated_at, acct_status, overdraft_limit, hold_vars, fx_vars,
                   sched_vars, txns,
                   transfers, req, queue, worker, outcome,
                   side_vars>>

\* The rows filter(status='FAILED', created_at__lt=cutoff_date) selects get
\* update(status='ARCHIVED').
Archived(rows) ==
    [i \in DOMAIN rows |->
        IF rows[i].status = "FAILED" /\ rows[i].created_at < today - ArchiveAfterDays
        THEN [rows[i] EXCEPT !.status = "ARCHIVED"]
        ELSE rows[i]]

\* cleanup_failed_transactions
cleanup_failed_transactions ==
    /\ txns' = Archived(txns)
    /\ transfers' = Archived(transfers)
    /\ UNCHANGED <<balance, updated_at, acct_status, overdraft_limit, hold_vars, fx_vars,
                   sched_vars, req,
                   queue, worker, outcome, today,
                   side_vars>>

\* Transaction.complete_transaction
complete_transaction(i) ==
    /\ i \in DOMAIN txns
    /\ txns' = [txns EXCEPT ![i].status = "completed"]
    /\ UNCHANGED <<balance, updated_at, acct_status, overdraft_limit, hold_vars, fx_vars,
                   sched_vars,
                   transfers, req, queue, worker, outcome, today,
                   side_vars>>

\* Transaction.fail_transaction
fail_transaction(i) ==
    /\ i \in DOMAIN txns
    /\ txns' = [txns EXCEPT ![i].status = "failed"]
    /\ UNCHANGED <<balance, updated_at, acct_status, overdraft_limit, hold_vars, fx_vars,
                   sched_vars,
                   transfers, req, queue, worker, outcome, today,
                   side_vars>>

\* Transaction.reverse_transaction
reverse_transaction(i) ==
    /\ i \in DOMAIN txns
    /\ txns' = [txns EXCEPT ![i].status = "reversed"]
    /\ UNCHANGED <<balance, updated_at, acct_status, overdraft_limit, hold_vars, fx_vars,
                   sched_vars,
                   transfers, req, queue, worker, outcome, today,
                   side_vars>>

\* -------------------------------------------------- scheduled transactions
\* max_executions and end_date are nullable; None stands for NULL.
None == -1

\* ScheduledTransaction.STATUS_CHOICES
ScheduleStatus == {"active", "paused", "completed", "cancelled"}

\* The frequencies of FREQUENCY_CHOICES the schedules of the model use.
Frequencies == {"once", "daily"}

\* ScheduledTransaction.should_execute, with timezone.now() on day now.
should_execute(s, now) ==
    /\ s.status = "active"
    /\ now >= s.next_execution
    /\ (s.max_executions = None \/ s.execution_count < s.max_executions)
    /\ (s.end_date = None \/ now <= s.end_date)

\* ScheduledTransaction.calculate_next_execution
calculate_next_execution(s) ==
    IF s.frequency = "once" THEN None
    ELSE s.next_execution + 1

\* ScheduledTransaction.execute on row i: it counts the execution, moves the
\* schedule on or completes it, and saves.  It does not call should_execute
\* and creates no Transfer.
execute(i) ==
    /\ i \in DOMAIN sched
    /\ sched[i].execution_count < MaxExecutions
    /\ LET s == sched[i]
           counted == [s EXCEPT !.execution_count = @ + 1,
                                !.last_execution = today]
           next_exec == calculate_next_execution(s)
           moved == IF next_exec # None
                    THEN [counted EXCEPT !.next_execution = next_exec]
                    ELSE [counted EXCEPT !.status = "completed"]
           capped == IF /\ moved.max_executions # None
                        /\ moved.max_executions # 0
                        /\ moved.execution_count >= moved.max_executions
                     THEN [moved EXCEPT !.status = "completed"]
                     ELSE moved
       IN  sched' = [sched EXCEPT ![i] = capped]
    /\ UNCHANGED <<balance, updated_at, acct_status, overdraft_limit,
                   hold_vars, fx_vars, txns, transfers, req, queue, worker,
                   outcome, today, task_results,
                   side_vars>>

\* process_scheduled_transactions: ScheduledTransaction has no is_active
\* field, so filter(is_active=True, ...) raises FieldError before any row is
\* read; the outer except logs it and the task returns "Error: ...".  No
\* schedule, balance, Transfer or Transaction is written.
process_scheduled_transactions ==
    /\ Len(task_results) < MaxRuns
    /\ task_results' = Append(task_results, "Error")
    /\ UNCHANGED <<balance, updated_at, acct_status, overdraft_limit,
                   hold_vars, fx_vars, sched, txns, transfers, req, queue,
                   worker, outcome, today,
                   side_vars>>

\* ------------------------------------------------------------ the system
\* The ledger requests with one task worker and exactly-once delivery.
Next ==
    \/ \E r \in Reqs, a \in Accts, amt \in Amounts : DepositValidate(r, a, amt)
    \/ \E r \in Reqs : DepositCreate(r)
    \/ \E r \in Reqs, a \in Accts, amt \in Amounts : WithdrawValidate(r, a, amt)
    \/ \E r \in Reqs : WithdrawCreate(r)
    \/ \E r \in Reqs, f \in Accts, t \in Accts, amt \in Amounts :
            InternalValidate(r, f, t, amt)
    \/ \E r \in Reqs : InternalCreate(r)
    \/ \E r \in Reqs, f \in Accts, amt \in Amounts : ExternalValidate(r, f, amt)
    \/ \E r \in Reqs : ExternalCreate(r)
    \/ \E m \in queue, err \in BOOLEAN : TaskFetch(1, m, err, TRUE)
    \/ \E ok \in BOOLEAN : TaskProcess(1, ok)

Spec == Init /\ [][Next]_vars

\* One external transfer (request 1) under at-least-once delivery and
\* several workers, with the other requests withdrawing from the accounts.
NextExt ==
    \/ \E f \in Accts, amt \in Amounts : ExternalValidate(1, f, amt)
    \/ ExternalCreate(1)
    \/ \E r \in Reqs \ {1}, a \in Accts, amt \in Amounts :
            WithdrawValidate(r, a, amt)
    \/ \E r \in Reqs \ {1} : WithdrawCreate(r)
    \/ \E w \in Workers, m \in queue, err \in BOOLEAN, ack \in BOOLEAN :
            TaskFetch(w, m, err, ack)
    \/ \E w \in Workers, ok \in BOOLEAN : TaskProcess(w, ok)

\* Account A was opened with a deposit, account B is empty.
InitExt ==
    /\ Init
    /\ balance = [a \in Accts |-> IF a = "A" THEN 300 ELSE 0]

ExtSpec == InitExt /\ [][NextExt]_vars

\* The external-transfer system with a notification step that can fail.
NextNotify ==
    \/ \E f \in Accts, amt \in Amounts : ExternalValidate(1, f, amt)
    \/ ExternalCreate(1)
    \/ \E r \in Reqs \ {1}, a \in Accts, amt \in Amounts :
            WithdrawValidate(r, a, amt)
    \/ \E r \in Reqs \ {1} : WithdrawCreate(r)
    \/ \E w \in Workers, m \in queue, err \in BOOLEAN, ack \in BOOLEAN :
            TaskFetch(w, m, err, ack)
    \/ \E w \in Workers, ok \in BOOLEAN : TaskProcess(w, ok)
    \/ \E w \in Workers, ok \in BOOLEAN : TaskProcessNotifyRaises(w, ok)

NotifySpec == InitExt /\ [][NextNotify]_vars

\* One deposit request next to the Transaction endpoints.
NextWrite ==
    \/ \E a \in Accts, amt \in Amounts : DepositValidate(1, a, amt)
    \/ DepositCreate(1)
    \/ \E a \in Accts, amt \in Amounts : TransactionListCreate(2, a, amt)
    \/ \E i \in DOMAIN txns, a \in Accts, amt \in Amounts,
          st \in {"pending", "completed"} : TransactionUpdate(i, a, amt, st)
    \/ \E i \in DOMAIN txns : TransactionDestroy(i)

WriteSpec == InitExt /\ [][NextWrite]_vars

\* The four ledger views, each request made by some authenticated user.  The
\* ownership test stands before save() in three of them; ExternalTransferView
\* calls save() right after is_valid().
NextPerm ==
    \/ \E r \in Reqs, u \in Users : Authenticate(r, u)
    \/ \E r \in Reqs, a \in Accts, amt \in Amounts :
            request_user[r] # NoUser /\ DepositValidate(r, a, amt)
    \/ \E r \in Reqs, a \in Accts, amt \in Amounts :
            request_user[r] # NoUser /\ WithdrawValidate(r, a, amt)
    \/ \E r \in Reqs, f \in Accts, t \in Accts, amt \in Amounts :
            request_user[r] # NoUser /\ InternalValidate(r, f, t, amt)
    \/ \E r \in Reqs, f \in Accts, amt \in Amounts :
            request_user[r] # NoUser /\ ExternalValidate(r, f, amt)
    \/ \E r \in Reqs : PermissionDenied(r)
    \/ \E r \in Reqs : OwnsSource(r) /\ DepositCreate(r)
    \/ \E r \in Reqs : OwnsSource(r) /\ WithdrawCreate(r)
    \/ \E r \in Reqs : OwnsSource(r) /\ InternalCreate(r)
    \/ \E r \in Reqs : ExternalCreate(r)

PermSpec == InitExt /\ [][NextPerm]_vars

\* Internal transfers with the row locks of their two UPDATEs.
NextLock ==
    \/ \E r \in Reqs, f \in Accts, t \in Accts, amt \in Amounts :
            InternalValidate(r, f, t, amt)
    \/ \E r \in Reqs : SaveFromAccount(r)
    \/ \E r \in Reqs : SaveToAccount(r)
    \/ \E r \in Reqs : AtomicExit(r)
    \/ \E r \in Reqs : DeadlockDetected(r)

LockSpec == Init /\ [][NextLock]_vars

\* The task runner delivers every message that waits at the broker, and a
\* worker that started the atomic block finishes it.
Messages ==
    [tid : 1..MaxReq, retries : 0..max_retries]

Delivery ==
    /\ \A m \in Messages :
          SF_vars(\E w \in Workers, err \in BOOLEAN, ack \in BOOLEAN :
                      TaskFetch(w, m, err, ack))
    /\ \A w \in Workers : WF_vars(\E ok \in BOOLEAN : TaskProcess(w, ok))

LiveSpec == InitExt /\ [][NextExt]_vars /\ Delivery

\* The four synchronous requests with amounts at and beyond every limit,
\* account A holding 60000.00 and account B empty and possibly frozen.
EdgeAmounts ==
    {0, 100, TransferDailyLimit + 1, MaxDepositAmount + 1}

InitEdge ==
    /\ balance = [a \in Accts |-> IF a = "A" THEN LargeBalance ELSE 0]
    /\ InitLedger
    /\ sched = <<>>
    /\ rates = ExchangeRates
    /\ acct_status \in {st \in [Accts -> AccountStatus] : st["A"] = "active"}
    /\ currency = [a \in Accts |-> "USD"]

NextEdge ==
    \/ \E r \in Reqs, a \in Accts, amt \in EdgeAmounts : DepositValidate(r, a, amt)
    \/ \E r \in Reqs : DepositCreate(r)
    \/ \E r \in Reqs, a \in Accts, amt \in EdgeAmounts : WithdrawValidate(r, a, amt)
    \/ \E r \in Reqs : WithdrawCreate(r)
    \/ \E r \in Reqs, f \in Accts, t \in Accts, amt \in EdgeAmounts :
            InternalValidate(r, f, t, amt)
    \/ \E r \in Reqs : InternalCreate(r)
    \/ \E r \in Reqs, f \in Accts, amt \in EdgeAmounts : ExternalValidate(r, f, amt)
    \/ \E r \in Reqs : ExternalCreate(r)

EdgeSpec == InitEdge /\ [][NextEdge]_vars

\* Two new, empty accounts with deposits, withdrawals and holds.
InitHold ==
    /\ balance = [a \in Accts |-> 0]
    /\ InitLedger
    /\ sched = <<>>
    /\ rates = ExchangeRates
    /\ acct_status = [a \in Accts |-> "active"]
    /\ currency = [a \in Accts |-> "USD"]

NextHold ==
    \/ \E r \in Reqs, a \in Accts, amt \in Amounts : DepositValidate(r, a, amt)
    \/ \E r \in Reqs : DepositCreate(r)
    \/ \E r \in Reqs, a \in Accts, amt \in Amounts : WithdrawValidate(r, a, amt)
    \/ \E r \in Reqs : WithdrawCreate(r)
    \/ \E a \in Accts, amt \in Amounts : HoldCreate(a, amt)
    \/ \E h \in DOMAIN holds : HoldDestroy(h)
    \/ \E r \in Reqs, h \in DOMAIN holds : HoldLoad(r, h)
    \/ \E r \in Reqs : HoldRelease(r)

HoldSpec == InitHold /\ [][NextHold]_vars

\* Withdrawals and internal transfers of 6000.00 and 30000.00 on one day,
\* from account A holding 60000.00.
LimitAmounts ==
    {600000, 3000000}

InitLimit ==
    /\ InitEdge
    /\ acct_status = [a \in Accts |-> "active"]

NextLimit ==
    \/ \E r \in Reqs, a \in Accts, amt \in LimitAmounts : WithdrawValidate(r, a, amt)
    \/ \E r \in Reqs : WithdrawCreate(r)
    \/ \E r \in Reqs, f \in Accts, t \in Accts, amt \in LimitAmounts :
            InternalValidate(r, f, t, amt)
    \/ \E r \in Reqs : InternalCreate(r)

LimitSpec == InitLimit /\ [][NextLimit]_vars

\* A USD account and a EUR account, with conversions of 500.00, 10000.00
\* and 10000.01 and internal transfers between the two accounts.
FxAmounts ==
    {50000, SpreadThreshold, SpreadThreshold + 1}

Currencies ==
    {"USD", "EUR"}

InitFx ==
    /\ balance = [a \in Accts |-> IF a = "A" THEN LargeBalance ELSE 0]
    /\ InitLedger
    /\ sched = <<>>
    /\ rates = ExchangeRates
    /\ acct_status = [a \in Accts |-> "active"]
    /\ currency = [a \in Accts |-> IF a = "A" THEN "USD" ELSE "EUR"]

NextFx ==
    \/ \E r \in Reqs, from \in Currencies, to \in Currencies, amt \in FxAmounts :
            ConvertCurrency(r, from, to, amt)
    \/ \E r \in Reqs, from \in Currencies, to \in Currencies, amt \in FxAmounts :
            ConversionCalculator(r, from, to, amt)
    \/ \E r \in Reqs, f \in Accts, t \in Accts, amt \in FxAmounts :
            CurrencyTransfer(r, f, t, amt)
    \/ \E r \in Reqs, f \in Accts, t \in Accts, amt \in FxAmounts :
            InternalValidate(r, f, t, amt)
    \/ \E r \in Reqs : InternalCreate(r)

FxSpec == InitFx /\ [][NextFx]_vars

\* ExchangeRate tables that quote one direction, both or none: USD -> EUR at
\* 0.80 and EUR -> USD at 2.00, each row active or not.
RateRows ==
    [from_currency : {"USD"}, to_currency : {"EUR"}, rate : {80}, spread : {1},
     is_active : BOOLEAN]
    \cup
    [from_currency : {"EUR"}, to_currency : {"USD"}, rate : {200}, spread : {1},
     is_active : BOOLEAN]

\* get_or_create(from_currency=..., to_currency=...) keeps one row per pair.
RateTables ==
    {t \in SUBSET RateRows :
        \A x \in t, y \in t :
            (x.from_currency = y.from_currency /\ x.to_currency = y.to_currency)
            => x = y}

InitRate ==
    /\ balance = [a \in Accts |-> IF a = "A" THEN LargeBalance ELSE 0]
    /\ InitLedger
    /\ sched = <<>>
    /\ rates \in RateTables
    /\ acct_status = [a \in Accts |-> "active"]
    /\ currency = [a \in Accts |-> IF a = "A" THEN "USD" ELSE "EUR"]

NextRate ==
    \/ \E r \in Reqs, from \in Currencies, to \in Currencies, amt \in FxAmounts :
            ConvertCurrency(r, from, to, amt)
    \/ \E r \in Reqs, from \in Currencies, to \in Currencies, amt \in FxAmounts :
            ConversionCalculator(r, from, to, amt)
    \/ \E r \in Reqs, f \in Accts, t \in Accts, amt \in FxAmounts :
            CurrencyTransfer(r, f, t, amt)

RateSpec == InitRate /\ [][NextRate]_vars

\* One schedule from A to B as the ORM can hold it: any status, capped or
\* not, with or without an end date, due now or after the next jump of time.
ScheduleRows ==
    [account : {"A"}, destination_account : {"B"}, amount : {100, 400},
     status : ScheduleStatus, frequency : Frequencies,
     next_execution : {0, ArchiveAfterDays + 1}, last_execution : {None},
     execution_count : {0}, max_executions : {None, 1, 2},
     end_date : {None, 0}]

InitSched ==
    /\ balance = [a \in Accts |-> IF a = "A" THEN 300 ELSE 0]
    /\ InitLedger
    /\ sched \in {<<s>> : s \in ScheduleRows}
    /\ rates = ExchangeRates
    /\ acct_status = [a \in Accts |-> "active"]
    /\ currency = [a \in Accts |-> "USD"]

NextSched ==
    \/ \E i \in 1..1 : execute(i)
    \/ process_scheduled_transactions
    \/ DaysPass

SchedSpec == InitSched /\ [][NextSched]_vars

\* InternalTransfer statement by statement, with deposits running beside it.
NextAtomic ==
    \/ \E r \in Reqs, f \in Accts, t \in Accts, amt \in Amounts :
            InternalValidate(r, f, t, amt)
    \/ \E r \in Reqs : InternalStep(r)
    \/ \E r \in Reqs : InternalFail(r)
    \/ \E r \in Reqs : InternalCommit(r)
    \/ \E r \in Reqs, a \in Accts, amt \in Amounts : DepositValidate(r, a, amt)
    \/ \E r \in Reqs : DepositCreate(r)

AtomicSpec == Init /\ [][NextAtomic]_vars

\* One external transfer with one worker, the periodic cleanup, the passing
\* of days and the status methods of Transaction.
NextStatus ==
    \/ \E f \in Accts, amt \in Amounts : ExternalValidate(1, f, amt)
    \/ ExternalCreate(1)
    \/ \E m \in queue, err \in BOOLEAN : TaskFetch(1, m, err, TRUE)
    \/ \E ok \in BOOLEAN : TaskProcess(1, ok)
    \/ DaysPass
    \/ cleanup_failed_transactions
    \/ \E i \in DOMAIN txns : complete_transaction(i)
    \/ \E i \in DOMAIN txns : fail_transaction(i)
    \/ \E i \in DOMAIN txns : reverse_transaction(i)

StatusSpec == InitExt /\ [][NextStatus]_vars
\* =================================================================== claims

\* The signed amount a Transaction contributes to its account's balance.
SignedAmount(t) ==
    IF t.transaction_type \in {"deposit", "CREDIT"} THEN t.amount
    ELSE IF t.transaction_type \in {"withdrawal", "DEBIT"} THEN 0 - t.amount
    ELSE 0

RECURSIVE Replay(_, _)
\* The balance obtained by replaying, from zero and in creation order, the
\* completed Transactions of account a.
Replay(rows, a) ==
    IF rows = <<>> THEN 0
    ELSE Replay(SubSeq(rows, 1, Len(rows) - 1), a)
         + (LET t == rows[Len(rows)]
            IN  IF t.account = a /\ t.status \in {"completed", "COMPLETED"}
                THEN SignedAmount(t) ELSE 0)

\* C1 - Ledger consistency: in every reachable state each account's stored
\* balance equals the signed sum of its completed Transactions replayed in
\* creation order from zero.
C1_LedgerConsistency ==
    \A a \in Accts : balance[a] = Replay(txns, a)

\* Two completed withdrawals of one account that were computed from the same
\* version of the Account row: both requests had read the row before either
\* of them wrote it, so they ran concurrently.
ConcurrentWithdrawals(i, j) ==
    /\ i < j
    /\ txns[i].transaction_type = "withdrawal"
    /\ txns[j].transaction_type = "withdrawal"
    /\ txns[i].status = "completed"
    /\ txns[j].status = "completed"
    /\ txns[i].account = txns[j].account
    /\ txns[i].seen = txns[j].seen
    /\ txns[i].created_at = txns[j].created_at

\* C2 - Two concurrent Withdraw requests on one account never both succeed
\* when the sum of their amounts exceeds the funds the account held before
\* either ran.
C2_NoDoubleWithdraw ==
    \A i, j \in DOMAIN txns :
        ConcurrentWithdrawals(i, j) =>
            txns[i].amount + txns[j].amount <= txns[i].balance_before

\* The debit Transactions the completion task created for Transfer tid.
DebitsOf(tid) ==
    {i \in DOMAIN txns : txns[i].origin = tid /\ txns[i].transaction_type = "DEBIT"}

C3_AtMostOneDebit ==
    \A tid \in DOMAIN transfers :
        transfers[tid].transfer_type = "EXTERNAL" => Cardinality(DebitsOf(tid)) <= 1

\* An invocation changes the balance only together with the first debit
\* Transaction of its Transfer.
C3_DebitWithBalance ==
    \A w \in Workers, ok \in BOOLEAN :
        TaskProcess(w, ok) =>
            \/ UNCHANGED <<balance, txns>>
            \/ /\ DebitsOf(worker[w].tid) = {}
               /\ Len(txns') = Len(txns) + 1
               /\ txns'[Len(txns')].origin = worker[w].tid
               /\ txns'[Len(txns')].transaction_type = "DEBIT"
               /\ \A a \in Accts :
                      a # transfers[worker[w].tid].from_account =>
                          balance'[a] = balance[a]

\* An invocation that finds the Transfer completed or failed changes nothing.
C3_NoOpWhenSettled ==
    \A w \in Workers, m \in queue, ack \in BOOLEAN :
        (TaskFetch(w, m, FALSE, ack)
            /\ transfers[m.tid].status \in {"COMPLETED", "FAILED"}) =>
                UNCHANGED <<balance, updated_at, txns, transfers, worker>>

C5_Floor ==
    \A a \in Accts : balance[a] >= 0 - overdraft_limit[a]

\* A request whose amount would take the balance below the floor is
\* rejected by validation and nothing is written.
C5_Rejected ==
    /\ \A r \in Reqs, a \in Accts, amt \in Amounts :
          (WithdrawValidate(r, a, amt)
              /\ balance[a] - amt < 0 - overdraft_limit[a]) =>
                  /\ req'[r].result = "rejected"
                  /\ UNCHANGED <<balance, txns, transfers>>
    /\ \A r \in Reqs, f \in Accts, t \in Accts, amt \in Amounts :
          (InternalValidate(r, f, t, amt)
              /\ balance[f] - amt < 0 - overdraft_limit[f]) =>
                  /\ req'[r].result = "rejected"
                  /\ UNCHANGED <<balance, txns, transfers>>
    /\ \A r \in Reqs, f \in Accts, amt \in Amounts :
          (ExternalValidate(r, f, amt)
              /\ balance[f] - (amt + StoredFee(amt)) < 0 - overdraft_limit[f]) =>
                  /\ req'[r].result = "rejected"
                  /\ UNCHANGED <<balance, txns, transfers>>

\* C5 - No negative balance without overdraft: every account always has
\* balance >= -overdraft_limit, and a Withdraw or transfer that would break
\* this is rejected before any mutation.
C5_NoNegativeBalance ==
    [](C5_Floor) /\ [][C5_Rejected]_vars

\* One withdrawal went through and another request was refused for lack of
\* funds.
C5_Witness ==
    /\ \E i \in DOMAIN txns : txns[i].transaction_type = "withdrawal"
    /\ \E r \in Reqs : req[r].op = "withdraw" /\ req[r].result = "rejected"

\* C6 - Conservation: a successful InternalTransfer of amount a lowers
\* from_account.balance by exactly a and raises to_account.balance by exactly
\* a relative to their latest committed values, also when other requests on
\* either account run concurrently; the sum of all balances is unchanged.
C6_Conservation ==
    [][\A r \in Reqs :
          InternalCreate(r) =>
              /\ balance'[req[r].from] = balance[req[r].from] - req[r].amount
              /\ balance'[req[r].to] = balance[req[r].to] + req[r].amount]_vars

\* C7 - Successful completion: when the task runs on a PENDING Transfer whose
\* source balance covers amount + fee and the settlement call succeeds, the
\* Transfer becomes COMPLETED with processed_at set, exactly one debit
\* Transaction of amount + fee is created with balance_after =
\* balance_before - (amount + fee), and the balance decreases by amount + fee.
C7_SuccessfulCompletion ==
    [][\A w \in Workers :
          LET tid == worker[w].tid
              f == transfers[tid].from_account
              total == transfers[tid].amount + transfers[tid].transfer_fee
          IN  (TaskProcess(w, TRUE)
                  /\ transfers[tid].status = "PENDING"
                  /\ balance[f] >= total) =>
                      /\ transfers'[tid].status = "COMPLETED"
                      /\ transfers'[tid].processed_at
                      /\ Len(txns') = Len(txns) + 1
                      /\ txns'[Len(txns')].account = f
                      /\ txns'[Len(txns')].amount = total
                      /\ txns'[Len(txns')].balance_after =
                             txns'[Len(txns')].balance_before - total
                      /\ balance'[f] = balance[f] - total]_vars

\* C8 - For an external transfer the balance changes and a debit Transaction
\* appears only in the step that marks the Transfer COMPLETED: initiation,
\* failure for insufficient balance, settlement failure and retry exhaustion
\* leave the balance and the Transactions unchanged.
C8_ExternalFrame ==
    [][/\ \A r \in Reqs : ExternalCreate(r) => UNCHANGED <<balance, txns>>
       /\ \A w \in Workers, m \in queue, err \in BOOLEAN, ack \in BOOLEAN :
             TaskFetch(w, m, err, ack) => UNCHANGED <<balance, txns>>
       /\ \A w \in Workers, ok \in BOOLEAN :
             TaskProcess(w, ok) =>
                 \/ UNCHANGED <<balance, txns>>
                 \/ /\ transfers[worker[w].tid].status # "COMPLETED"
                    /\ transfers'[worker[w].tid].status = "COMPLETED"]_vars

\* The bank declined a transfer: it is FAILED and nothing was debited.
C8_Witness ==
    /\ outcome.what = "declined"
    /\ transfers[outcome.tid].status = "FAILED"
    /\ DebitsOf(outcome.tid) = {}

\* The Transactions of one type recorded for Transfer tid.
LegsOf(tid, type) ==
    {i \in DOMAIN txns : txns[i].origin = tid /\ txns[i].transaction_type = type}

\* Every internal Transfer has its debit on from_account and its credit on
\* to_account, and no leg exists without its Transfer.
C4_AllPresent ==
    /\ \A tid \in DOMAIN transfers :
          transfers[tid].transfer_type = "INTERNAL" =>
              /\ Cardinality(LegsOf(tid, "DEBIT")) = 1
              /\ Cardinality(LegsOf(tid, "CREDIT")) = 1
              /\ \A i \in LegsOf(tid, "DEBIT") :
                    /\ txns[i].account = transfers[tid].from_account
                    /\ txns[i].amount = transfers[tid].amount
              /\ \A i \in LegsOf(tid, "CREDIT") :
                    /\ txns[i].account = transfers[tid].to_account
                    /\ txns[i].amount = transfers[tid].amount
    /\ \A i \in DOMAIN txns :
          txns[i].origin # 0 => txns[i].origin \in DOMAIN transfers

\* A statement or a failure inside the operation changes nothing another
\* request can read; the commit writes the Transfer, both legs and both
\* balances in one step.
C4_Together ==
    \A r \in Reqs :
        /\ (InternalStep(r) \/ InternalFail(r)) =>
                UNCHANGED <<balance, updated_at, txns, transfers>>
        /\ InternalCommit(r) =>
                /\ Len(transfers') = Len(transfers) + 1
                /\ Len(txns') = Len(txns) + 2
                /\ balance'[req[r].from] = req[r].from_balance - req[r].amount
                /\ balance'[req[r].to] = req[r].to_balance + req[r].amount

\* C4 - InternalTransfer is all-or-nothing: in every committed state either
\* the Transfer, the debit Transaction, the credit Transaction and both
\* balance updates are all present or none of them is, and a failure at
\* any step inside the operation leaves the balances and the Transaction
\* and Transfer tables unchanged.
C4_AllOrNothing ==
    [](C4_AllPresent) /\ [][C4_Together]_vars

\* One transfer failed after both legs were written and was rolled back,
\* another one committed.
C4_Witness ==
    /\ \E r \in Reqs : /\ req[r].op = "internal"
                        /\ req[r].result = "error"
                        /\ req[r].step >= 3
    /\ \E tid \in DOMAIN transfers : transfers[tid].transfer_type = "INTERNAL"

C9_RetriesBounded ==
    /\ \A m \in queue : m.retries <= max_retries
    /\ \A w \in Workers : worker[w].retries <= max_retries

\* An invocation that fails with the retries used up marks the Transfer
\* FAILED and schedules no further retry.
C9_Exhausted ==
    \A w \in Workers :
        (TaskProcess(w, TRUE) /\ worker[w].retries = max_retries
            /\ outcome'.what = "error") =>
                /\ transfers'[worker[w].tid].status = "FAILED"
                /\ queue' = queue

C10_TerminalAbsorbing ==
    [][/\ \A tid \in DOMAIN transfers :
             transfers[tid].status \in {"COMPLETED", "FAILED", "CANCELLED"} =>
                 transfers'[tid].status = transfers[tid].status
       /\ \A i \in DOMAIN txns :
             /\ txns[i].status \in {"failed", "cancelled", "reversed",
                                    "FAILED", "CANCELLED", "REVERSED"} =>
                    txns'[i].status = txns[i].status
             /\ txns[i].status \in {"completed", "COMPLETED"} =>
                    txns'[i].status \in {txns[i].status, "reversed"}]_vars

\* The request data and account state every validator must refuse.
C11_MustReject ==
    /\ \A r \in Reqs, a \in Accts, amt \in EdgeAmounts :
          (DepositValidate(r, a, amt)
              /\ (amt <= 0 \/ amt > MaxDepositAmount
                    \/ acct_status[a] # "active")) =>
                  req'[r].result = "rejected"
    /\ \A r \in Reqs, a \in Accts, amt \in EdgeAmounts :
          (WithdrawValidate(r, a, amt)
              /\ (amt <= 0 \/ acct_status[a] # "active" \/ balance[a] < amt)) =>
                  req'[r].result = "rejected"
    /\ \A r \in Reqs, f \in Accts, t \in Accts, amt \in EdgeAmounts :
          (InternalValidate(r, f, t, amt)
              /\ (amt <= 0 \/ acct_status[f] # "active"
                    \/ acct_status[t] # "active" \/ f = t \/ balance[f] < amt
                    \/ TodayTransfers(f) + amt > TransferDailyLimit)) =>
                  req'[r].result = "rejected"
    /\ \A r \in Reqs, f \in Accts, amt \in EdgeAmounts :
          (ExternalValidate(r, f, amt)
              /\ (amt <= 0 \/ acct_status[f] # "active"
                    \/ balance[f] < amt + StoredFee(amt)
                    \/ TodayExternal(f) + amt > ExternalDailyLimit)) =>
                  req'[r].result = "rejected"

\* C11 - A synchronous operation that validation rejects (non-positive or
\* over-ceiling amount, unknown or non-active account, insufficient funds,
\* daily limit exceeded, transfer to the same account) leaves every balance
\* and the Transaction and Transfer tables exactly as they were, and the
\* request writes nothing afterwards.
C11_RejectedUntouched ==
    [][/\ C11_MustReject
       /\ \A r \in Reqs :
             (req'[r].result = "rejected" /\ req[r].result # "rejected") =>
                 UNCHANGED <<balance, available_balance, txns, transfers, queue>>
       /\ \A r \in Reqs :
             req[r].result = "rejected" => req'[r] = req[r]]_vars

\* One request was refused for the daily limit and one for a transfer to the
\* same account.
C11_Witness ==
    /\ \E r \in Reqs : req[r].result = "rejected" /\ req[r].reason = "daily_limit"
    /\ \E r \in Reqs : req[r].result = "rejected" /\ req[r].reason = "same_account"

\* The amounts of the active AccountHolds on account a.
ActiveHolds(a) ==
    SumAmounts(SelectSeq(holds, LAMBDA h : h.account = a /\ h.is_active))

\* C12 - In every reachable state, after any sequence of deposits,
\* withdrawals, hold creations and hold releases or removals, every account
\* has available_balance <= balance and available_balance equal to balance
\* minus the amounts of its active AccountHolds.
C12_AvailableBalance ==
    \A a \in Accts :
        /\ available_balance[a] <= balance[a]
        /\ available_balance[a] = balance[a] - ActiveHolds(a)

\* C13 - A successful Deposit of amount a on an account with balance b
\* creates exactly one Transaction (deposit, completed, balance_before = b,
\* balance_after = b + a) and raises both balance and available_balance by a.
C13_DepositEffect ==
    [][\A r \in Reqs :
          DepositCreate(r) =>
              LET a == req[r].from
                  amt == req[r].amount
                  t == txns'[Len(txns')]
              IN  /\ Len(txns') = Len(txns) + 1
                  /\ t.account = a
                  /\ t.transaction_type = "deposit"
                  /\ t.status = "completed"
                  /\ t.balance_after = t.balance_before + amt
                  /\ balance'[a] = t.balance_after
                  /\ available_balance'[a] = available_balance[a] + amt]_vars

\* C14 - A Withdraw of amount a on an active account, within the daily
\* limit, is accepted exactly when available_balance + overdraft_limit >= a
\* and is otherwise rejected for insufficient funds.
C14_WithdrawFundsCheck ==
    [][\A r \in Reqs, a \in Accts, amt \in Amounts :
          (WithdrawValidate(r, a, amt)
              /\ acct_status[a] = "active"
              /\ amt > 0
              /\ TodayWithdrawals(a) + amt <= WithdrawDailyLimit) =>
                  IF available_balance[a] + overdraft_limit[a] >= amt
                  THEN req'[r].result # "rejected"
                  ELSE /\ req'[r].result = "rejected"
                       /\ req'[r].reason = "insufficient"]_vars

\* C18 - Hold release is idempotent: whatever the number of Release() calls
\* on one AccountHold, on one object or on separately loaded copies, the
\* held amount is added back to available_balance exactly once and the hold
\* goes from active to released only once.
C18_ReleaseOnce ==
    [][\A r \in Reqs :
          (HoldRelease(r) /\ available_balance' # available_balance) =>
              holds[hold_copy[r].h].is_active]_vars

\* The completed withdrawals of account a on day d.
WithdrawnOn(a, d) ==
    SumAmounts(SelectSeq(txns, LAMBDA t : /\ t.account = a
                                          /\ t.transaction_type = "withdrawal"
                                          /\ t.status = "completed"
                                          /\ t.created_at = d))

\* C15 - Daily withdrawal limit: for every account and day the amounts of
\* that day's completed withdrawal Transactions sum to at most the daily
\* withdrawal limit; a Withdraw that would exceed it is rejected.
C15_DailyWithdrawalLimit ==
    \A a \in Accts : \A i \in DOMAIN txns :
        WithdrawnOn(a, txns[i].created_at) <= WithdrawDailyLimit

\* The completed Transfers from account a on day d.
TransferredOn(a, d) ==
    SumAmounts(SelectSeq(transfers, LAMBDA t : /\ t.from_account = a
                                               /\ t.status = "COMPLETED"
                                               /\ t.created_at = d))

\* C16 - Daily transfer limit: for every source account and day the amounts
\* of that day's completed Transfers from the account sum to at most the
\* daily transfer limit, under any sequence or interleaving of
\* InternalTransfer requests.
C16_DailyTransferLimit ==
    \A a \in Accts : \A i \in DOMAIN transfers :
        TransferredOn(a, transfers[i].created_at) <= TransferDailyLimit

\* C17 - Cross-currency InternalTransfer: when the two accounts differ in
\* currency, from_account is debited the requested amount, the credit leg
\* and the increase of to_account.balance equal amount * effective rate, and
\* the Transfer stores the exchange_rate used.
C17_CrossCurrency ==
    [][\A r \in Reqs :
          (InternalCreate(r) /\ currency[req[r].from] # currency[req[r].to]) =>
              LET f == req[r].from
                  t == req[r].to
                  amt == req[r].amount
                  x == RateFor(currency[f], currency[t])
                  credited == Stored(Product(amt, TotalRate(amt, x.rate, x.spread)))
              IN  /\ balance'[f] = balance[f] - amt
                  /\ txns'[Len(txns')].transaction_type = "CREDIT"
                  /\ txns'[Len(txns')].amount = credited
                  /\ balance'[t] = balance[t] + credited
                  /\ transfers'[Len(transfers')].exchange_rate = x.rate]_vars

\* The rate every conversion path must use for an amount.
C19_Rate(amt, from, to) ==
    LET x == RateFor(from, to)
    IN  IF amt > SpreadThreshold THEN x.rate * (100 - x.spread) ELSE x.rate * 100

\* The spread rule in the stored conversions and in the calculator's answers.
C19_SpreadRule ==
    /\ \A i \in DOMAIN conversions :
          LET c == conversions[i]
          IN  /\ c.total_rate = C19_Rate(c.amount, c.from_currency, c.to_currency)
              /\ c.spread_applied = 0 <=> c.amount <= SpreadThreshold
    /\ \A r \in Reqs :
          (req[r].op = "calculator" /\ req[r].result = "ok") =>
              /\ req[r].response.final_rate * 100 =
                     req[r].response.base_rate * 100 * (100 - req[r].response.spread)
              /\ req[r].response.spread = 0 <=> req[r].amount <= SpreadThreshold
              /\ req[r].response.converted_amount =
                     Product(req[r].amount, req[r].response.final_rate)

\* C19 as stated - the effective rate is base_rate * (1 - spread) exactly
\* when amount > 10000 and base_rate otherwise, and the recorded
\* converted_amount equals amount * total_rate.
C19_Exact ==
    /\ C19_SpreadRule
    /\ \A i \in DOMAIN conversions :
          LET c == conversions[i]
              x == Product(c.amount, c.total_rate)
          IN  c.converted_amount = x.cents /\ x.rest = 0

\* C19 - Spread threshold: in every conversion path the effective rate is
\* base_rate * (1 - spread) exactly when amount > 10000 and base_rate
\* otherwise (10000.00 gets no spread, 10000.01 gets it), and the recorded
\* converted_amount is amount * total_rate rounded to whole cents.
C19_SpreadThreshold ==
    /\ C19_SpreadRule
    /\ \A i \in DOMAIN conversions :
          LET c == conversions[i]
          IN  c.converted_amount = Stored(Product(c.amount, c.total_rate))

\* 10000.00 was converted without spread and 10000.01 with it.
C19_Witness ==
    /\ \E i \in DOMAIN conversions :
          conversions[i].amount = SpreadThreshold /\ conversions[i].spread_applied = 0
    /\ \E i \in DOMAIN conversions :
          /\ conversions[i].amount = SpreadThreshold + 1
          /\ conversions[i].spread_applied > 0

\* C20: a schedule is executed (execution_count incremented, money moved)
\* only in a state where should_execute holds: status active, now >=
\* next_execution, under the cap and not past end_date.
C20_ExecutionGuard ==
    [][\A i \in DOMAIN sched :
          (\/ sched'[i].execution_count > sched[i].execution_count
           \/ balance' # balance)
          => should_execute(sched[i], today)]_vars

\* C20, consequence: execution_count never exceeds max_executions.
C20_CountWithinCap ==
    \A i \in DOMAIN sched :
        sched[i].max_executions = None
        \/ sched[i].execution_count <= sched[i].max_executions

\* C20, consequence: no schedule moves money while it is not active.
C20_InactiveMovesNoMoney ==
    [][(\A i \in DOMAIN sched : sched[i].status # "active")
          => balance' = balance]_vars

\* C21: when the schedule job runs on a due schedule whose source account
\* holds less than the scheduled amount, no money moves, next_execution is
\* advanced by one period, status stays active and execution_count stays.
C21_MissAdvancesSchedule ==
    [][Len(task_results') > Len(task_results)
          => \A i \in DOMAIN sched :
                (/\ should_execute(sched[i], today)
                 /\ sched[i].frequency = "daily"
                 /\ balance[sched[i].account] < sched[i].amount)
                => /\ balance' = balance
                   /\ sched'[i].next_execution =
                          calculate_next_execution(sched[i])
                   /\ sched'[i].status = "active"
                   /\ sched'[i].execution_count = sched[i].execution_count]_vars

\* C22: an execution adds exactly 1 to execution_count, sets last_execution,
\* never moves next_execution back (one period on for a recurring schedule)
\* and completes the schedule when the cap is reached or end_date has passed.
C22_SuccessfulExecution ==
    [][\A i \in DOMAIN sched :
          sched'[i].execution_count > sched[i].execution_count
          => /\ sched'[i].execution_count = sched[i].execution_count + 1
             /\ sched'[i].last_execution = today
             /\ sched'[i].next_execution >= sched[i].next_execution
             /\ (sched[i].frequency = "daily"
                 => sched'[i].next_execution =
                        calculate_next_execution(sched[i]))
             /\ ((\/ /\ sched[i].max_executions # None
                     /\ sched'[i].execution_count >= sched[i].max_executions
                  \/ /\ sched[i].end_date # None
                     /\ today > sched[i].end_date)
                 => sched'[i].status = "completed")]_vars

C24_ReferencePairing ==
    \A tid \in DOMAIN transfers :
        (transfers[tid].transfer_type = "INTERNAL"
         /\ transfers[tid].status = "COMPLETED")
        => LET carrying == {i \in DOMAIN txns :
                               txns[i].reference_number =
                                   transfers[tid].reference_number}
           IN  /\ Cardinality(carrying) = 2
               /\ \A i \in carrying : txns[i].origin = tid
               /\ \E d, c \in carrying :
                     /\ txns[d].transaction_type = "DEBIT"
                     /\ txns[d].account = transfers[tid].from_account
                     /\ txns[c].transaction_type = "CREDIT"
                     /\ txns[c].account = transfers[tid].to_account
                     /\ txns[d].amount = transfers[tid].amount
                     /\ txns[c].amount = transfers[tid].amount

\* C25: the active TransactionLimit of an account counts every accepted
\* withdrawal: current_period_usage equals the total of the period's
\* withdrawals and never exceeds limit_amount.
C25_UsageAccounting ==
    \A a \in Accts :
        limits[a].is_active
        => /\ limits[a].current_period_usage = WithdrawnOn(a, today)
           /\ limits[a].current_period_usage <= limits[a].limit_amount

\* C26: a failing notification step never undoes the ledger mutation: when
\* the settlement succeeded and the notification call raises, the Transfer
\* still ends COMPLETED with its debit Transaction and the balance decrease.
C26_NotifyFailureKeepsLedger ==
    [][\A w \in Workers :
          LET tid == worker[w].tid
              f == transfers[tid].from_account
              total == transfers[tid].amount + transfers[tid].transfer_fee
          IN  TaskProcessNotifyRaises(w, TRUE)
              => /\ transfers'[tid].status = "COMPLETED"
                 /\ Len(txns') = Len(txns) + 1
                 /\ txns'[Len(txns')].origin = tid
                 /\ txns'[Len(txns')].transaction_type = "DEBIT"
                 /\ balance'[f] = balance[f] - total]_vars

\* C27: Transaction records are write-once: a completed Transaction is never
\* deleted and its amount, account, balance_before and balance_after never
\* change; and a Transaction appears only together with a balance change.
C27_WriteOnce ==
    [][/\ \A i \in DOMAIN txns :
             txns[i].status \in {"completed", "COMPLETED"}
             => /\ i \in DOMAIN txns'
                /\ txns'[i].amount = txns[i].amount
                /\ txns'[i].account = txns[i].account
                /\ txns'[i].balance_before = txns[i].balance_before
                /\ txns'[i].balance_after = txns[i].balance_after
       /\ Len(txns') > Len(txns) => balance' # balance]_vars

\* C28: the two Account rows of a transfer are written in one global order,
\* so no state is reachable in which two transfers each hold one row and
\* wait for the row the other holds.
C28_NoLockCycle ==
    \A r1 \in Reqs, r2 \in Reqs : ~(WaitsFor(r1, r2) /\ WaitsFor(r2, r1))

\* C28, the order itself: a transfer that holds one row and goes on to write
\* another holds the row with the smaller account identifier.
C28_GlobalOrder ==
    \A r \in Reqs :
        (req[r].pc = "validated" /\ req[r].op = "internal" /\ req[r].step = 4)
        => req[r].from = "A"

C30_OwnerOnly ==
    [][\A r \in Reqs :
          (req[r].pc = "validated" /\ req'[r].pc = "done" /\ ~OwnsSource(r))
          => /\ req'[r].result = "denied"
             /\ UNCHANGED <<txns, transfers, queue, balance>>]_vars

====
